---- MODULE Spec2Model ----
(***************************************************************************)
(* Session management views of the UIDAM portal.                           *)
(*                                                                         *)
(*   - ActiveSessionsManagement (self-service view): list, auto-refresh,   *)
(*     confirmation dialog, single and bulk termination.                   *)
(*   - AdminSessionsModal (admin view): list and terminate the sessions of *)
(*     a named user.                                                       *)
(*                                                                         *)
(* Every handler is one action.  An async handler is split at its await:   *)
(* the part before the await issues the gateway call (the call is then "in *)
(* flight"), the part after the await is the action that resolves it.      *)
(* Session ids are the opaque non-empty token ids 1..NumSessionIds; only   *)
(* the fields of a session that the handlers read (sessionId, isCurrent)   *)
(* are kept.                                                               *)
(***************************************************************************)
EXTENDS Naturals, Sequences, FiniteSets

(* ------------------------------ bounds --------------------------------- *)
NumSessionIds == 2       \* size of the universe of session ids
MaxFetchInFlight == 2    \* getActiveSessions calls outstanding at once
MaxTermInFlight == 2     \* terminateSessions calls outstanding at once

(* ------------------------------ values --------------------------------- *)
NULL == "null"           \* the null of error / success (string | null)
NoSession == 0           \* the null of confirmDialog.sessionId

SessionIds == 1..NumSessionIds

MsgFetchFallback == "Failed to fetch active sessions"
MsgTerminateFallback == "Failed to terminate session"
MsgTerminateAllFallback == "Failed to terminate all sessions"
MsgNoOtherSessions == "No other sessions to terminate"
MsgSessionTerminated == "Session terminated successfully"
MsgAllTerminated == "All other sessions terminated successfully"

\* What a gateway call can reject with: an Error instance carrying a message,
\* or any other thrown value (err: unknown).
Failures ==
  { [isError |-> TRUE, message |-> "Network error"],
    [isError |-> FALSE, message |-> "Network error"] }

\* err instanceof Error ? err.message : fallback
ErrorMessage(err, fallback) ==
  IF err.isError THEN err.message ELSE fallback

\* The ids of S in increasing order.
SortedIds(S) ==
  CHOOSE q \in [1..Cardinality(S) -> S] :
    \A i, j \in 1..Cardinality(S) : i < j => q[i] < q[j]

\* ActiveSession[]: lists of sessions with distinct ids.
SessionLists ==
  { [k \in 1..Cardinality(S) |->
        [sessionId |-> SortedIds(S)[k], isCurrent |-> f[SortedIds(S)[k]]]] :
      S \in SUBSET SessionIds, f \in [SessionIds -> BOOLEAN] }

\* SessionsResponse as it arrives: the sessions field may be missing.
Responses ==
  { [hasSessions |-> TRUE, sessions |-> l] : l \in SessionLists }
    \cup { [hasSessions |-> FALSE, sessions |-> <<>>] }

\* response.sessions || []
SessionsOrEmpty(response) ==
  IF response.hasSessions THEN response.sessions ELSE <<>>

\* sessions.filter(session => !session.isCurrent).map(session => session.sessionId)
NonCurrentIds(list) ==
  LET others == SelectSeq(list, LAMBDA s : ~s.isCurrent)
  IN  [k \in 1..Len(others) |-> others[k].sessionId]

\* sessions.filter(s => !s.isCurrent).length
OtherSessionsCount(list) ==
  Len(SelectSeq(list, LAMBDA s : ~s.isCurrent))

Handlers == {"single", "all"}

\* Number of terminateSessions calls awaiting their response.
TermCount(inFlight) == inFlight["single"] + inFlight["all"]

SeqToSet(s) == { s[i] : i \in 1..Len(s) }

NoCall == [handler |-> "none", tokenIds |-> <<>>]

\* No response has been delivered yet: the list is the useState initial [].
NoResponse == [hasSessions |-> FALSE, sessions |-> <<>>]

ClosedDialog == [open |-> FALSE, sessionId |-> NoSession, isTerminateAll |-> FALSE]

(* ------------------------------ state ---------------------------------- *)
VARIABLES
  phase,          \* "created" (rendered, effect not yet run), "mounted", "unmounted"
  sessions,       \* useState<ActiveSession[]>
  loading,        \* useState<boolean>
  error,          \* useState<string | null>
  success,        \* useState<string | null>
  confirmDialog,  \* useState<{open, sessionId, isTerminateAll}>
  timers,         \* number of live setInterval timers of the view
  fetchInFlight,  \* number of getActiveSessions calls awaiting their response
  termInFlight,   \* per handler, its terminateSessions calls awaiting their response
  issued,         \* the terminateSessions call made by the latest step, or NoCall
  captured,       \* history: the target ids at the moment the open dialog was opened
  lastFetched,    \* history: the latest response delivered to the mounted view, or NoResponse
  callsThisOpen   \* history: terminateSessions calls issued from the open dialog

selfVars == <<phase, sessions, loading, error, success, confirmDialog, timers,
              fetchInFlight, termInFlight, issued, captured, lastFetched,
              callsThisOpen>>

Mounted == phase = "mounted"

\* The step makes no terminateSessions call.
NoTerminateIssued == issued' = NoCall

(* ----------------------- ActiveSessionsManagement ---------------------- *)

\* Mutant: starting a fetch leaves the error message in place.
FetchSessionsStart_KeepsError ==
  /\ fetchInFlight' = fetchInFlight + 1
  /\ IF Mounted'
       THEN loading' = TRUE /\ UNCHANGED error
       ELSE UNCHANGED <<loading, error>>

\* The synchronous part of fetchSessions, up to the await.  A state setter of
\* an unmounted component has no effect, the gateway call is issued anyway.
FetchSessionsStart ==
  /\ fetchInFlight' = fetchInFlight + 1
  /\ IF Mounted'
       THEN loading' = TRUE /\ error' = NULL
       ELSE UNCHANGED <<loading, error>>

\* Mutant: the effect registers the timer but makes no initial fetch.
Mount_NoInitialFetch ==
  /\ phase = "created"
  /\ phase' = "mounted"
  /\ timers' = timers + 1
  /\ NoTerminateIssued
  /\ UNCHANGED lastFetched
  /\ UNCHANGED <<fetchInFlight, loading, error>>
  /\ UNCHANGED <<sessions, success, confirmDialog, termInFlight, captured, callsThisOpen>>

\* useEffect on mount: fetchSessions(); setInterval(fetchSessions, ...)
Mount ==
  /\ phase = "created"
  /\ phase' = "mounted"
  /\ FetchSessionsStart
  /\ timers' = timers + 1
  /\ NoTerminateIssued
  /\ UNCHANGED lastFetched
  /\ UNCHANGED <<sessions, success, confirmDialog, termInFlight, captured, callsThisOpen>>

\* Mutant: the effect has no cleanup, the interval timer survives the unmount.
Unmount_KeepsTimer ==
  /\ phase = "mounted"
  /\ phase' = "unmounted"
  /\ NoTerminateIssued
  /\ UNCHANGED lastFetched
  /\ UNCHANGED <<sessions, loading, error, success, confirmDialog, timers,
                 fetchInFlight, termInFlight, captured, callsThisOpen>>

\* useEffect cleanup: clearInterval(intervalId)
Unmount ==
  /\ phase = "mounted"
  /\ phase' = "unmounted"
  /\ timers' = 0
  /\ NoTerminateIssued
  /\ UNCHANGED lastFetched
  /\ UNCHANGED <<sessions, loading, error, success, confirmDialog,
                 fetchInFlight, termInFlight, captured, callsThisOpen>>

\* setInterval callback
TimerTick ==
  /\ timers > 0
  /\ fetchInFlight < MaxFetchInFlight
  /\ UNCHANGED phase
  /\ FetchSessionsStart
  /\ NoTerminateIssued
  /\ UNCHANGED lastFetched
  /\ UNCHANGED <<sessions, success, confirmDialog, timers, termInFlight, captured, callsThisOpen>>

\* Refresh IconButton, disabled={loading}; behind the backdrop of an open dialog
ManualRefresh ==
  /\ Mounted
  /\ ~loading
  /\ ~confirmDialog.open
  /\ fetchInFlight < MaxFetchInFlight
  /\ UNCHANGED phase
  /\ FetchSessionsStart
  /\ NoTerminateIssued
  /\ UNCHANGED lastFetched
  /\ UNCHANGED <<sessions, success, confirmDialog, timers, termInFlight, captured, callsThisOpen>>

\* Mutant: the fetched sessions are added to the held list.
FetchSucceed_Merges(response) ==
  /\ fetchInFlight > 0
  /\ fetchInFlight' = fetchInFlight - 1
  /\ IF Mounted
       THEN /\ sessions' = sessions \o SelectSeq(SessionsOrEmpty(response),
                               LAMBDA n : \A k \in 1..Len(sessions) :
                                            sessions[k].sessionId # n.sessionId)
            /\ loading' = FALSE
            /\ lastFetched' = response
       ELSE UNCHANGED <<sessions, loading, lastFetched>>
  /\ NoTerminateIssued
  /\ UNCHANGED <<phase, error, success, confirmDialog, timers, termInFlight, captured, callsThisOpen>>

\* fetchSessions after the await, try branch and finally
FetchSucceed(response) ==
  /\ fetchInFlight > 0
  /\ fetchInFlight' = fetchInFlight - 1
  /\ IF Mounted
       THEN /\ sessions' = SessionsOrEmpty(response)
            /\ loading' = FALSE
            /\ lastFetched' = response
       ELSE UNCHANGED <<sessions, loading, lastFetched>>
  /\ NoTerminateIssued
  /\ UNCHANGED <<phase, error, success, confirmDialog, timers, termInFlight, captured, callsThisOpen>>

\* Mutant: a failed fetch blanks the list.
FetchFail_ClearsList(err) ==
  /\ fetchInFlight > 0
  /\ fetchInFlight' = fetchInFlight - 1
  /\ IF Mounted
       THEN /\ error' = ErrorMessage(err, MsgFetchFallback)
            /\ loading' = FALSE
            /\ sessions' = <<>>
       ELSE UNCHANGED <<error, loading, sessions>>
  /\ NoTerminateIssued
  /\ UNCHANGED lastFetched
  /\ UNCHANGED <<phase, success, confirmDialog, timers, termInFlight, captured, callsThisOpen>>

\* fetchSessions after the await, catch branch and finally
FetchFail(err) ==
  /\ fetchInFlight > 0
  /\ fetchInFlight' = fetchInFlight - 1
  /\ IF Mounted
       THEN error' = ErrorMessage(err, MsgFetchFallback) /\ loading' = FALSE
       ELSE UNCHANGED <<error, loading>>
  /\ NoTerminateIssued
  /\ UNCHANGED lastFetched
  /\ UNCHANGED <<phase, sessions, success, confirmDialog, timers, termInFlight, captured, callsThisOpen>>

\* setConfirmDialog({ open: true, sessionId, isTerminateAll })
openConfirmDialog(sessionId, isTerminateAll) ==
  confirmDialog' = [open |-> TRUE, sessionId |-> sessionId,
                    isTerminateAll |-> isTerminateAll]

\* Mutant: the IconButton is rendered on every card.
TerminateControlOffered_Always(session) == TRUE

\* The session cards that render the "Terminate this session" IconButton.
TerminateControlOffered(session) == ~session.isCurrent

\* Mutant: the click calls the termination itself, without the dialog.
ClickTerminateSession_Direct(k) ==
  /\ Mounted
  /\ ~confirmDialog.open
  /\ k \in 1..Len(sessions)
  /\ TerminateControlOffered(sessions[k])
  /\ TermCount(termInFlight) < MaxTermInFlight
  /\ termInFlight' = [termInFlight EXCEPT !["single"] = @ + 1]
  /\ issued' = [handler |-> "single", tokenIds |-> <<sessions[k].sessionId>>]
  /\ UNCHANGED <<phase, sessions, loading, error, success, confirmDialog, timers,
                 fetchInFlight, captured, lastFetched, callsThisOpen>>

\* click on a session card's IconButton: openConfirmDialog(session.sessionId, false)
ClickTerminateSession(k) ==
  /\ Mounted
  /\ ~confirmDialog.open
  /\ k \in 1..Len(sessions)
  /\ TerminateControlOffered(sessions[k])
  /\ openConfirmDialog(sessions[k].sessionId, FALSE)
  /\ captured' = <<sessions[k].sessionId>>
  /\ callsThisOpen' = 0
  /\ NoTerminateIssued
  /\ UNCHANGED lastFetched
  /\ UNCHANGED <<phase, sessions, loading, error, success, timers,
                 fetchInFlight, termInFlight>>

\* Mutant: the button is never disabled.
ClickTerminateAll_AlwaysEnabled ==
  /\ Mounted
  /\ ~confirmDialog.open
  /\ openConfirmDialog(NoSession, TRUE)
  /\ captured' = NonCurrentIds(sessions)
  /\ callsThisOpen' = 0
  /\ NoTerminateIssued
  /\ UNCHANGED lastFetched
  /\ UNCHANGED <<phase, sessions, loading, error, success, timers,
                 fetchInFlight, termInFlight>>

\* "Terminate All Other Sessions" button, disabled={loading || otherSessionsCount === 0}
ClickTerminateAll ==
  /\ Mounted
  /\ ~confirmDialog.open
  /\ ~(loading \/ OtherSessionsCount(sessions) = 0)
  /\ openConfirmDialog(NoSession, TRUE)
  /\ captured' = NonCurrentIds(sessions)
  /\ callsThisOpen' = 0
  /\ NoTerminateIssued
  /\ UNCHANGED lastFetched
  /\ UNCHANGED <<phase, sessions, loading, error, success, timers,
                 fetchInFlight, termInFlight>>

\* Mutant: closing the dialog only clears its open flag.
closeConfirmDialog_KeepsTarget ==
  /\ Mounted
  /\ confirmDialog.open
  /\ confirmDialog' = [confirmDialog EXCEPT !.open = FALSE]
  /\ captured' = <<>>
  /\ callsThisOpen' = 0
  /\ NoTerminateIssued
  /\ UNCHANGED lastFetched
  /\ UNCHANGED <<phase, sessions, loading, error, success, timers,
                 fetchInFlight, termInFlight>>

\* Mutant: closing the dialog also dismisses the messages.
closeConfirmDialog_ClearsMessages ==
  /\ Mounted
  /\ confirmDialog.open
  /\ confirmDialog' = ClosedDialog
  /\ error' = NULL
  /\ success' = NULL
  /\ captured' = <<>>
  /\ callsThisOpen' = 0
  /\ NoTerminateIssued
  /\ UNCHANGED lastFetched
  /\ UNCHANGED <<phase, sessions, loading, timers, fetchInFlight, termInFlight>>

\* Cancel button and Dialog onClose (backdrop click, Escape)
closeConfirmDialog ==
  /\ Mounted
  /\ confirmDialog.open
  /\ confirmDialog' = ClosedDialog
  /\ captured' = <<>>
  /\ callsThisOpen' = 0
  /\ NoTerminateIssued
  /\ UNCHANGED lastFetched
  /\ UNCHANGED <<phase, sessions, loading, error, success, timers,
                 fetchInFlight, termInFlight>>

\* SessionService.terminateSessions(tokenIds) issued by the given handler
IssueTerminate(handler, tokenIds) ==
  /\ termInFlight' = [termInFlight EXCEPT ![handler] = @ + 1]
  /\ issued' = [handler |-> handler, tokenIds |-> tokenIds]
  /\ callsThisOpen' = callsThisOpen + 1

\* Mutant: the filter on isCurrent is forgotten.
TerminateAllTargets_Unfiltered == [k \in 1..Len(sessions) |-> sessions[k].sessionId]

\* The ids handleTerminateAllOtherSessions sends.
TerminateAllTargets == NonCurrentIds(sessions)

\* Mutant: the target is looked up in the held list when the user confirms.
TerminateSingleTargets_Rederived ==
  IF Len(NonCurrentIds(sessions)) > 0
    THEN <<NonCurrentIds(sessions)[1]>>
    ELSE <<confirmDialog.sessionId>>

\* The ids handleTerminateSession is called with by handleConfirm.
TerminateSingleTargets == <<confirmDialog.sessionId>>

\* Mutant: the guard on an empty target list is missing.
NoTargets_Never(tokenIds) == FALSE

\* tokenIds.length === 0
NoTargets(tokenIds) == Len(tokenIds) = 0

\* Terminate button of the dialog: handleConfirm and the handler it calls,
\* up to that handler's await (or to its return when there is no target).
handleConfirm ==
  /\ Mounted
  /\ confirmDialog.open
  /\ IF confirmDialog.isTerminateAll
       THEN IF NoTargets(TerminateAllTargets)
              THEN /\ error' = MsgNoOtherSessions
                   /\ confirmDialog' = ClosedDialog
                   /\ captured' = <<>>
                   /\ callsThisOpen' = 0
                   /\ UNCHANGED termInFlight
                   /\ NoTerminateIssued
              ELSE /\ TermCount(termInFlight) < MaxTermInFlight
                   /\ IssueTerminate("all", TerminateAllTargets)
                   /\ UNCHANGED <<error, confirmDialog, captured>>
       ELSE IF confirmDialog.sessionId # NoSession
              THEN /\ TermCount(termInFlight) < MaxTermInFlight
                   /\ IssueTerminate("single", TerminateSingleTargets)
                   /\ UNCHANGED <<error, confirmDialog, captured>>
              ELSE /\ NoTerminateIssued
                   /\ UNCHANGED <<error, confirmDialog, captured, termInFlight,
                                  callsThisOpen>>
  /\ UNCHANGED <<phase, sessions, loading, success, timers, fetchInFlight, lastFetched>>

\* Mutant: the terminated sessions are removed from the held list instead of
\* fetching the list again.
TerminateSucceed_PatchesList(handler) ==
  /\ termInFlight[handler] > 0
  /\ termInFlight' = [termInFlight EXCEPT ![handler] = @ - 1]
  /\ IF Mounted
       THEN /\ success' = IF handler = "all"
                            THEN MsgAllTerminated ELSE MsgSessionTerminated
            /\ sessions' = SelectSeq(sessions, LAMBDA s : s.isCurrent)
            /\ confirmDialog' = ClosedDialog
            /\ captured' = <<>>
            /\ callsThisOpen' = 0
       ELSE UNCHANGED <<success, sessions, confirmDialog, captured, callsThisOpen>>
  /\ NoTerminateIssued
  /\ UNCHANGED lastFetched
  /\ UNCHANGED <<phase, loading, error, timers, fetchInFlight>>

\* handleTerminateSession / handleTerminateAllOtherSessions after the await:
\* setSuccess, fetchSessions(), and the finally block
TerminateSucceed(handler) ==
  /\ termInFlight[handler] > 0
  /\ fetchInFlight < MaxFetchInFlight
  /\ termInFlight' = [termInFlight EXCEPT ![handler] = @ - 1]
  /\ UNCHANGED phase
  /\ FetchSessionsStart
  /\ IF Mounted
       THEN /\ success' = IF handler = "all"
                            THEN MsgAllTerminated ELSE MsgSessionTerminated
            /\ confirmDialog' = ClosedDialog
            /\ captured' = <<>>
            /\ callsThisOpen' = 0
       ELSE UNCHANGED <<success, confirmDialog, captured, callsThisOpen>>
  /\ NoTerminateIssued
  /\ UNCHANGED lastFetched
  /\ UNCHANGED <<sessions, timers>>

\* Mutant: the catch branch also clears the success message.
TerminateFail_ClearsSuccess(handler, err) ==
  /\ termInFlight[handler] > 0
  /\ termInFlight' = [termInFlight EXCEPT ![handler] = @ - 1]
  /\ IF Mounted
       THEN /\ error' = ErrorMessage(err, IF handler = "all"
                                            THEN MsgTerminateAllFallback
                                            ELSE MsgTerminateFallback)
            /\ success' = NULL
            /\ confirmDialog' = ClosedDialog
            /\ captured' = <<>>
            /\ callsThisOpen' = 0
       ELSE UNCHANGED <<error, success, confirmDialog, captured, callsThisOpen>>
  /\ NoTerminateIssued
  /\ UNCHANGED lastFetched
  /\ UNCHANGED <<phase, sessions, loading, timers, fetchInFlight>>

\* Mutant: the handlers have no finally block, a failure leaves the dialog open.
TerminateFail_KeepsDialog(handler, err) ==
  /\ termInFlight[handler] > 0
  /\ termInFlight' = [termInFlight EXCEPT ![handler] = @ - 1]
  /\ IF Mounted
       THEN error' = ErrorMessage(err, IF handler = "all"
                                         THEN MsgTerminateAllFallback
                                         ELSE MsgTerminateFallback)
       ELSE UNCHANGED error
  /\ NoTerminateIssued
  /\ UNCHANGED lastFetched
  /\ UNCHANGED <<confirmDialog, captured, callsThisOpen>>
  /\ UNCHANGED <<phase, sessions, loading, success, timers, fetchInFlight>>

\* handleTerminateSession / handleTerminateAllOtherSessions after the await:
\* the catch branch and the finally block
TerminateFail(handler, err) ==
  /\ termInFlight[handler] > 0
  /\ termInFlight' = [termInFlight EXCEPT ![handler] = @ - 1]
  /\ IF Mounted
       THEN /\ error' = ErrorMessage(err, IF handler = "all"
                                            THEN MsgTerminateAllFallback
                                            ELSE MsgTerminateFallback)
            /\ confirmDialog' = ClosedDialog
            /\ captured' = <<>>
            /\ callsThisOpen' = 0
       ELSE UNCHANGED <<error, confirmDialog, captured, callsThisOpen>>
  /\ NoTerminateIssued
  /\ UNCHANGED lastFetched
  /\ UNCHANGED <<phase, sessions, loading, success, timers, fetchInFlight>>

\* error Alert onClose: setError(null)
DismissError ==
  /\ Mounted
  /\ ~confirmDialog.open
  /\ error # NULL
  /\ error' = NULL
  /\ NoTerminateIssued
  /\ UNCHANGED lastFetched
  /\ UNCHANGED <<phase, sessions, loading, success, confirmDialog, timers,
                 fetchInFlight, termInFlight, captured, callsThisOpen>>

\* success Alert onClose: setSuccess(null)
DismissSuccess ==
  /\ Mounted
  /\ ~confirmDialog.open
  /\ success # NULL
  /\ success' = NULL
  /\ NoTerminateIssued
  /\ UNCHANGED lastFetched
  /\ UNCHANGED <<phase, sessions, loading, error, confirmDialog, timers,
                 fetchInFlight, termInFlight, captured, callsThisOpen>>

SelfInit ==
  /\ phase = "created"
  /\ sessions = <<>>
  /\ loading = FALSE
  /\ error = NULL
  /\ success = NULL
  /\ confirmDialog = ClosedDialog
  /\ timers = 0
  /\ fetchInFlight = 0
  /\ termInFlight = [h \in Handlers |-> 0]
  /\ issued = NoCall
  /\ captured = <<>>
  /\ lastFetched = NoResponse
  /\ callsThisOpen = 0

(* -------------------------- AdminSessionsModal -------------------------- *)
Usernames == {"alice", "bob"}
NoUser == ""             \* username null or empty: !username

MsgAdminFetchFallback == "Failed to fetch sessions"
MsgAdminTerminateFallback == "Failed to terminate session"

NoAdminCall == [username |-> NoUser, tokenIds |-> <<>>]

NoneInFlight == [u \in Usernames \cup {NoUser} |-> 0]

\* Number of calls awaiting their response, over all usernames.
AdminCount(inFlight) == inFlight["alice"] + inFlight["bob"] + inFlight[NoUser]

VARIABLES
  aOpen,          \* prop open
  aUsername,      \* prop username (string | null)
  aSessions,      \* useState<ActiveSession[]>
  aLoading,       \* useState(false)
  aError,         \* useState<string | null>
  aSuccess,       \* useState<string | null>
  aFetchInFlight, \* per username, its getAdminActiveSessions calls awaiting their response
  aTermInFlight,  \* per username, its terminateAdminSessions calls awaiting their response
  aIssued,        \* the terminateAdminSessions call made by the latest step, or NoAdminCall
  aListUser       \* history: the username whose response filled aSessions, or NoUser

adminVars == <<aOpen, aUsername, aSessions, aLoading, aError, aSuccess,
               aFetchInFlight, aTermInFlight, aIssued, aListUser>>

(* --------------------------- the mocked clock --------------------------- *)
AUTO_REFRESH_INTERVAL == 30000   \* ms

MaxIntervals == 2

\* The amount by which the clock is advanced at a time.
ClockStep == AUTO_REFRESH_INTERVAL \div 2

VARIABLES
  clock,       \* ms of (mocked) time elapsed
  nextFire,    \* the time at which the interval timer is due next
  fetchCalls   \* history: the number of getActiveSessions calls made so far

clockVars == <<clock, nextFire, fetchCalls>>

\* The getActiveSessions calls the step makes are counted.
CountFetchCalls ==
  fetchCalls' = fetchCalls + (IF fetchInFlight' > fetchInFlight
                                THEN fetchInFlight' - fetchInFlight ELSE 0)

\* useEffect on mount under the mocked clock: the interval timer is first due
\* one interval after the mount
TimedMount ==
  /\ Mount
  /\ CountFetchCalls
  /\ nextFire' = clock + AUTO_REFRESH_INTERVAL
  /\ UNCHANGED clock

\* jest.advanceTimersByTime: time passes up to the moment the timer is due
AdvanceClock ==
  /\ phase # "created"
  /\ clock < MaxIntervals * AUTO_REFRESH_INTERVAL
  /\ timers > 0 => clock < nextFire
  /\ clock' = clock + ClockStep
  /\ UNCHANGED <<nextFire, fetchCalls, selfVars>>

\* the setInterval callback runs when the timer is due, and the timer is
\* due again one interval later
TimedTick ==
  /\ clock >= nextFire
  /\ TimerTick
  /\ CountFetchCalls
  /\ nextFire' = nextFire + AUTO_REFRESH_INTERVAL
  /\ UNCHANGED clock

ClockInit ==
  /\ clock = 0
  /\ nextFire = 0
  /\ fetchCalls = 0

\* The step makes no terminateAdminSessions call.
NoAdminTerminateIssued == aIssued' = NoAdminCall

\* Mutant: fetchSessions has no early return on a missing username.
AdminFetchSessionsStart_NoGuard(username) ==
  /\ aLoading' = TRUE
  /\ aError' = NULL
  /\ aFetchInFlight' = [aFetchInFlight EXCEPT ![username] = @ + 1]

\* fetchSessions of the render with the given username, up to its await
AdminFetchSessionsStart(username) ==
  IF username = NoUser
    THEN UNCHANGED <<aLoading, aError, aFetchInFlight>>
    ELSE /\ aLoading' = TRUE
         /\ aError' = NULL
         /\ aFetchInFlight' = [aFetchInFlight EXCEPT ![username] = @ + 1]

\* The parent renders the modal with new props; useEffect([open, username, fetchSessions])
AdminSetProps(open, username) ==
  /\ <<open, username>> # <<aOpen, aUsername>>
  /\ aOpen' = open
  /\ aUsername' = username
  /\ IF open /\ username # NoUser
       THEN /\ AdminCount(aFetchInFlight) < MaxFetchInFlight
            /\ AdminFetchSessionsStart(username)
            /\ UNCHANGED <<aSessions, aSuccess, aListUser>>
       ELSE /\ aSessions' = <<>>
            /\ aError' = NULL
            /\ aSuccess' = NULL
            /\ aListUser' = NoUser
            /\ UNCHANGED <<aLoading, aFetchInFlight>>
  /\ NoAdminTerminateIssued
  /\ UNCHANGED aTermInFlight

\* Refresh IconButton, disabled={loading}
AdminRefresh ==
  /\ aOpen
  /\ ~aLoading
  /\ aUsername # NoUser => AdminCount(aFetchInFlight) < MaxFetchInFlight
  /\ AdminFetchSessionsStart(aUsername)
  /\ NoAdminTerminateIssued
  /\ UNCHANGED <<aOpen, aUsername, aSessions, aSuccess, aTermInFlight, aListUser>>

\* fetchSessions after the await, try branch and finally
AdminFetchSucceed(username, response) ==
  /\ aFetchInFlight[username] > 0
  /\ aFetchInFlight' = [aFetchInFlight EXCEPT ![username] = @ - 1]
  /\ aSessions' = SessionsOrEmpty(response)
  /\ aListUser' = username
  /\ aLoading' = FALSE
  /\ NoAdminTerminateIssued
  /\ UNCHANGED <<aOpen, aUsername, aError, aSuccess, aTermInFlight>>

\* fetchSessions after the await, catch branch and finally
AdminFetchFail(username, err) ==
  /\ aFetchInFlight[username] > 0
  /\ aFetchInFlight' = [aFetchInFlight EXCEPT ![username] = @ - 1]
  /\ aError' = ErrorMessage(err, MsgAdminFetchFallback)
  /\ aLoading' = FALSE
  /\ NoAdminTerminateIssued
  /\ UNCHANGED <<aOpen, aUsername, aSessions, aSuccess, aTermInFlight, aListUser>>

\* handleTerminate(sessionId) up to its await
handleTerminate(sessionId) ==
  IF aUsername = NoUser
    THEN /\ NoAdminTerminateIssued
         /\ UNCHANGED aTermInFlight
    ELSE /\ AdminCount(aTermInFlight) < MaxTermInFlight
         /\ aTermInFlight' = [aTermInFlight EXCEPT ![aUsername] = @ + 1]
         /\ aIssued' = [username |-> aUsername, tokenIds |-> <<sessionId>>]

\* click on a listed session's terminate IconButton (rendered when not loading,
\* on the sessions that are not current): onClick={() => handleTerminate(session.sessionId)}
AdminClickTerminate(k) ==
  /\ aOpen
  /\ ~aLoading
  /\ k \in 1..Len(aSessions)
  /\ ~aSessions[k].isCurrent
  /\ handleTerminate(aSessions[k].sessionId)
  /\ UNCHANGED <<aOpen, aUsername, aSessions, aLoading, aError, aSuccess,
                 aFetchInFlight, aListUser>>

\* handleTerminate after the await: setSuccess and fetchSessions() of the
\* render the click happened in
AdminTerminateSucceed(username) ==
  /\ aTermInFlight[username] > 0
  /\ AdminCount(aFetchInFlight) < MaxFetchInFlight
  /\ aTermInFlight' = [aTermInFlight EXCEPT ![username] = @ - 1]
  /\ aSuccess' = MsgSessionTerminated
  /\ AdminFetchSessionsStart(username)
  /\ NoAdminTerminateIssued
  /\ UNCHANGED <<aOpen, aUsername, aSessions, aListUser>>

\* handleTerminate after the await: the catch branch
AdminTerminateFail(username, err) ==
  /\ aTermInFlight[username] > 0
  /\ aTermInFlight' = [aTermInFlight EXCEPT ![username] = @ - 1]
  /\ aError' = ErrorMessage(err, MsgAdminTerminateFallback)
  /\ NoAdminTerminateIssued
  /\ UNCHANGED <<aOpen, aUsername, aSessions, aLoading, aSuccess,
                 aFetchInFlight, aListUser>>

\* error Alert onClose: setError(null)
AdminDismissError ==
  /\ aOpen
  /\ aError # NULL
  /\ aError' = NULL
  /\ NoAdminTerminateIssued
  /\ UNCHANGED <<aOpen, aUsername, aSessions, aLoading, aSuccess,
                 aFetchInFlight, aTermInFlight, aListUser>>

\* success Alert onClose: setSuccess(null)
AdminDismissSuccess ==
  /\ aOpen
  /\ aSuccess # NULL
  /\ aSuccess' = NULL
  /\ NoAdminTerminateIssued
  /\ UNCHANGED <<aOpen, aUsername, aSessions, aLoading, aError,
                 aFetchInFlight, aTermInFlight, aListUser>>

AdminViewInit ==
  /\ aOpen = FALSE
  /\ aUsername = NoUser
  /\ aSessions = <<>>
  /\ aLoading = FALSE
  /\ aError = NULL
  /\ aSuccess = NULL
  /\ aFetchInFlight = NoneInFlight
  /\ aTermInFlight = NoneInFlight
  /\ aIssued = NoAdminCall
  /\ aListUser = NoUser

(* ----------------------------- SessionService --------------------------- *)
Undefined == "undefined"

\* Values of REACT_APP_SESSION_API_PREFIX in the runtime config; Undefined
\* stands for an absent (undefined or null) entry.
ConfigValues == {Undefined, "", "/sdp", "/auth"}

\* getConfig().REACT_APP_SESSION_API_PREFIX ?? '/sdp'
getPrefix(config) == IF config = Undefined THEN "/sdp" ELSE config

ListOperations == {"getActiveSessions", "getAdminActiveSessions"}
VoidOperations == {"terminateSessions", "terminateAdminSessions"}

\* The tokenIds arrays a caller may pass: any order, repetitions included.
TokenIdLists == UNION {[1..n -> SessionIds] : n \in 0..NumSessionIds}

\* The JSON object sent as request data: the fields it has and their values.
Body(fields, username, tokenIds) ==
  [fields |-> fields, username |-> username, tokenIds |-> tokenIds]

NoBody == Body({}, NoUser, <<>>)

\* A request handed to authServerApi: url is `${prefix}${path}`.
Request(method, prefix, path, body) ==
  [method |-> method, url |-> [prefix |-> prefix, path |-> path], body |-> body]

NoError == [isError |-> FALSE, message |-> ""]

\* The state of a promise: pending, or settled with a value, with undefined
\* (void), or with a thrown error.
Settled(kind, value, thrown) == [kind |-> kind, value |-> value, error |-> thrown]

Pending == Settled("pending", NoResponse, NoError)

VARIABLES
  svcOp,        \* the operation of the call under way or last made, or "none"
  svcArgs,      \* its arguments (username, tokenIds)
  svcConfig,    \* the configured prefix at the time of the call
  svcRequests,  \* the requests the call has handed to authServerApi
  httpResult,   \* the promise returned by authServerApi.get / post
  svcOutcome    \* the promise returned by the operation

svcVars == <<svcOp, svcArgs, svcConfig, svcRequests, httpResult, svcOutcome>>

\* A call of an operation: the previous call, if any, has settled.
CallStart(op, config, username, tokenIds) ==
  /\ svcOutcome.kind # "pending"
  /\ svcOp' = op
  /\ svcArgs' = [username |-> username, tokenIds |-> tokenIds]
  /\ svcConfig' = config
  /\ httpResult' = Pending
  /\ svcOutcome' = Pending

\* getActiveSessions() up to its await
getActiveSessions(config) ==
  /\ CallStart("getActiveSessions", config, NoUser, <<>>)
  /\ svcRequests' = <<Request("GET", getPrefix(config), "/self/tokens/active", NoBody)>>

\* terminateSessions(tokenIds) up to its await
terminateSessions(config, tokenIds) ==
  /\ CallStart("terminateSessions", config, NoUser, tokenIds)
  /\ svcRequests' = <<Request("POST", getPrefix(config), "/self/tokens/invalidate",
                              Body({"tokenIds"}, NoUser, tokenIds))>>

\* getAdminActiveSessions(username) up to its await
getAdminActiveSessions(config, username) ==
  /\ CallStart("getAdminActiveSessions", config, username, <<>>)
  /\ svcRequests' = <<Request("POST", getPrefix(config), "/admin/tokens/active",
                              Body({"username"}, username, <<>>))>>

\* Mutant: the username is left out of the request data.
terminateAdminSessions_DropsUsername(config, username, tokenIds) ==
  /\ CallStart("terminateAdminSessions", config, username, tokenIds)
  /\ svcRequests' = <<Request("POST", getPrefix(config), "/admin/tokens/invalidate",
                              Body({"tokenIds"}, NoUser, tokenIds))>>

\* terminateAdminSessions(username, tokenIds) up to its await
terminateAdminSessions(config, username, tokenIds) ==
  /\ CallStart("terminateAdminSessions", config, username, tokenIds)
  /\ svcRequests' = <<Request("POST", getPrefix(config), "/admin/tokens/invalidate",
                              Body({"username", "tokenIds"}, username, tokenIds))>>

\* getActiveSessions / getAdminActiveSessions after the await: return response
ReturnResponse(response) ==
  /\ svcOp \in ListOperations
  /\ httpResult.kind = "pending"
  /\ httpResult' = Settled("value", response, NoError)
  /\ svcOutcome' = Settled("value", response, NoError)
  /\ UNCHANGED <<svcOp, svcArgs, svcConfig, svcRequests>>

\* terminateSessions / terminateAdminSessions after the await: the response
\* is dropped, the operation returns nothing
ReturnVoid(response) ==
  /\ svcOp \in VoidOperations
  /\ httpResult.kind = "pending"
  /\ httpResult' = Settled("value", response, NoError)
  /\ svcOutcome' = Settled("void", NoResponse, NoError)
  /\ UNCHANGED <<svcOp, svcArgs, svcConfig, svcRequests>>

\* Mutant: the catch block throws an error of its own.
Rethrow_Translated(thrown) ==
  /\ svcOp # "none"
  /\ httpResult.kind = "pending"
  /\ httpResult' = Settled("error", NoResponse, thrown)
  /\ svcOutcome' = Settled("error", NoResponse,
                           [isError |-> TRUE, message |-> "Session request failed"])
  /\ UNCHANGED <<svcOp, svcArgs, svcConfig, svcRequests>>

\* the catch block of each of the four operations: console.error; throw error
Rethrow(thrown) ==
  /\ svcOp # "none"
  /\ httpResult.kind = "pending"
  /\ httpResult' = Settled("error", NoResponse, thrown)
  /\ svcOutcome' = Settled("error", NoResponse, thrown)
  /\ UNCHANGED <<svcOp, svcArgs, svcConfig, svcRequests>>

ServiceInit ==
  /\ svcOp = "none"
  /\ svcArgs = [username |-> NoUser, tokenIds |-> <<>>]
  /\ svcConfig = Undefined
  /\ svcRequests = <<>>
  /\ httpResult = Settled("none", NoResponse, NoError)
  /\ svcOutcome = Settled("none", NoResponse, NoError)

(* ----------------------------- ChangePassword --------------------------- *)
MaxVisits == 2
MaxResetCalls == 3

ProfileRoute == "/profile"
ChangePasswordRoute == "/change-password"

MsgResetFallback == "Failed to initiate password reset. Please try again."

VARIABLES
  changePassword,  \* the ChangePassword component on the page, or the one last
                   \* on it: its state (loading, success, error), the route the
                   \* browser shows, and the number of the component instance
  resetCalls       \* the UserService.requestPasswordReset calls made so far:
                   \* the instance that made the call and the call's outcome

changePasswordVars == <<changePassword, resetCalls>>

\* The ChangePassword component is on the page.
OnChangePassword == changePassword.route = ChangePasswordRoute

\* The calls of the instance on the page that await their response.
PendingResets ==
  { k \in 1..Len(resetCalls) :
      /\ resetCalls[k].instance = changePassword.instance
      /\ resetCalls[k].outcome = "pending" }

\* The router renders a new ChangePassword: useState(false), useState(false),
\* useState(null)
EnterChangePassword ==
  /\ ~OnChangePassword
  /\ changePassword.instance < MaxVisits
  /\ changePassword' = [route |-> ChangePasswordRoute,
                        instance |-> changePassword.instance + 1,
                        loading |-> FALSE, success |-> FALSE, error |-> NULL]
  /\ UNCHANGED resetCalls

\* Mutant: the request button is not disabled while loading.
ClickRequestPasswordReset_NeverDisabled ==
  /\ OnChangePassword
  /\ ~changePassword.success
  /\ Len(resetCalls) < MaxResetCalls
  /\ changePassword' = [changePassword EXCEPT !.loading = TRUE, !.error = NULL,
                                              !.success = FALSE]
  /\ resetCalls' = Append(resetCalls, [instance |-> changePassword.instance,
                                       outcome |-> "pending"])

\* "Request Password Reset" button, rendered when !success, disabled={loading}:
\* handleRequestPasswordReset up to its await
ClickRequestPasswordReset ==
  /\ OnChangePassword
  /\ ~changePassword.success
  /\ ~changePassword.loading
  /\ Len(resetCalls) < MaxResetCalls
  /\ changePassword' = [changePassword EXCEPT !.loading = TRUE, !.error = NULL,
                                              !.success = FALSE]
  /\ resetCalls' = Append(resetCalls, [instance |-> changePassword.instance,
                                       outcome |-> "pending"])

\* "Cancel" button, rendered when !success, disabled={loading}: navigate('/profile')
ClickCancel ==
  /\ OnChangePassword
  /\ ~changePassword.success
  /\ ~changePassword.loading
  /\ changePassword' = [changePassword EXCEPT !.route = ProfileRoute]
  /\ UNCHANGED resetCalls

\* "Back to Profile" button, rendered when success: navigate('/profile')
ClickBackToProfile ==
  /\ OnChangePassword
  /\ changePassword.success
  /\ changePassword' = [changePassword EXCEPT !.route = ProfileRoute]
  /\ UNCHANGED resetCalls

\* The user leaves the page by the browser's own navigation; the component
\* is unmounted whatever its state.
BrowserLeave ==
  /\ OnChangePassword
  /\ changePassword' = [changePassword EXCEPT !.route = ProfileRoute]
  /\ UNCHANGED resetCalls

\* The call's instance is still the one on the page, so its state setters
\* have an effect.
ResetCallOfPage(k) ==
  OnChangePassword /\ resetCalls[k].instance = changePassword.instance

\* handleRequestPasswordReset after the await: setSuccess(true) and finally
ResetResolve(k) ==
  /\ k \in 1..Len(resetCalls)
  /\ resetCalls[k].outcome = "pending"
  /\ resetCalls' = [resetCalls EXCEPT ![k].outcome = "resolved"]
  /\ IF ResetCallOfPage(k)
       THEN changePassword' = [changePassword EXCEPT !.success = TRUE, !.loading = FALSE]
       ELSE UNCHANGED changePassword

\* handleRequestPasswordReset after the await: the catch branch and finally
ResetReject(k, err) ==
  /\ k \in 1..Len(resetCalls)
  /\ resetCalls[k].outcome = "pending"
  /\ resetCalls' = [resetCalls EXCEPT ![k].outcome = "rejected"]
  /\ IF ResetCallOfPage(k)
       THEN changePassword' = [changePassword EXCEPT
                                 !.error = ErrorMessage(err, MsgResetFallback),
                                 !.loading = FALSE]
       ELSE UNCHANGED changePassword

ChangePasswordInit ==
  /\ changePassword = [route |-> ProfileRoute, instance |-> 0,
                       loading |-> FALSE, success |-> FALSE, error |-> NULL]
  /\ resetCalls = <<>>

(* ----------------------- ClientRegistrationService ---------------------- *)
MaxUris == 2

BASE_PATH == "/v1/oauth2/client"

\* accessTokenValidity etc. left undefined
NoNumber == 0 - 999

\* The strings a URI field may hold: empty, blank, a URI with an http(s)
\* scheme, and the same with a leading blank.
UriValues == {"", "  ", "https://portal/callback", " https://portal/callback"}

\* String.prototype.trim on the strings of the model
Trim(s) ==
  CASE s = "  " -> ""
    [] s = " https://portal/callback" -> "https://portal/callback"
    [] OTHER -> s

\* /^https?:\/\/.+/.test(uri)
MatchesUrlPattern(uri) == uri = "https://portal/callback"

\* An optional array: present with a list, or undefined.
Some(list) == [present |-> TRUE, list |-> list]
None == [present |-> FALSE, list |-> <<>>]

UriLists == UNION {[1..n -> UriValues] : n \in 0..MaxUris}

GrantTypeLists ==
  {<<>>, <<"authorization_code">>, <<"client_credentials">>,
   <<"authorization_code", "client_credentials">>}

\* list.includes(x)
Includes(list, x) == \E k \in 1..Len(list) : list[k] = x

\* list.filter(uri => uri.trim() !== '')
NonBlank(list) == SelectSeq(list, LAMBDA uri : Trim(uri) # "")

\* getDefaultClientData(); clientSecret, clientAuthenticationMethods,
\* requireAuthorizationConsent, additionalInformation and status are passed
\* through by every operation and are left out.
getDefaultClientData ==
  [clientId |-> "",
   clientName |-> "",
   authorizationGrantTypes |-> <<"authorization_code">>,
   redirectUris |-> <<"">>,
   postLogoutRedirectUris |-> Some(<<"">>),
   scopes |-> <<"openid", "profile">>,
   accessTokenValidity |-> 3600,
   refreshTokenValidity |-> 3600,
   authorizationCodeValidity |-> 300,
   createdBy |-> "web-admin"]

\* The forms a user can submit: the default form with fields edited.
ClientForms ==
  { [getDefaultClientData EXCEPT
       !.clientId = id, !.clientName = name,
       !.authorizationGrantTypes = grants,
       !.redirectUris = uris,
       !.postLogoutRedirectUris = logout,
       !.accessTokenValidity = access,
       !.refreshTokenValidity = refresh,
       !.authorizationCodeValidity = code] :
      id \in {"", "portal"}, name \in {"  ", "Portal"},
      grants \in GrantTypeLists, uris \in UriLists,
      logout \in {None, Some(<<"">>), Some(<<" https://portal/callback">>)},
      access \in {NoNumber, 0 - 1, 3600},
      refresh \in {0 - 1, 3600}, code \in {0 - 1, 300} }

\* errors.push(message) when the condition holds
PushIf(condition, message) == IF condition THEN <<message>> ELSE <<>>

\* validateClientData(data): the error messages, in the order they are pushed
validateClientData(data) ==
  PushIf(Trim(data.clientId) = "", "Client ID is required")
  \o PushIf(Trim(data.clientName) = "", "Client Name is required")
  \o PushIf(Len(data.authorizationGrantTypes) = 0,
            "At least one authorization grant type is required")
  \o PushIf(Includes(data.authorizationGrantTypes, "authorization_code")
              /\ Len(data.redirectUris) = 0,
            "Redirect URIs are required for authorization code flow")
  \o PushIf(\E k \in 1..Len(data.redirectUris) :
              Trim(data.redirectUris[k]) # "" /\ ~MatchesUrlPattern(data.redirectUris[k]),
            "All redirect URIs must be valid HTTP/HTTPS URLs")
  \o PushIf(/\ data.postLogoutRedirectUris.present
            /\ \E k \in 1..Len(data.postLogoutRedirectUris.list) :
                 /\ Trim(data.postLogoutRedirectUris.list[k]) # ""
                 /\ ~MatchesUrlPattern(data.postLogoutRedirectUris.list[k]),
            "All post-logout redirect URIs must be valid HTTP/HTTPS URLs")
  \o PushIf(data.accessTokenValidity # NoNumber /\ data.accessTokenValidity < 0,
            "Access token validity must be a positive number")
  \o PushIf(data.refreshTokenValidity # NoNumber /\ data.refreshTokenValidity < 0,
            "Refresh token validity must be a positive number")
  \o PushIf(data.authorizationCodeValidity # NoNumber /\ data.authorizationCodeValidity < 0,
            "Authorization code validity must be a positive number")

\* The payload createClient and updateClient build from the form.
ClientPayload(clientData) ==
  [clientData EXCEPT
     !.redirectUris = NonBlank(clientData.redirectUris),
     !.postLogoutRedirectUris =
        Some(IF clientData.postLogoutRedirectUris.present
               THEN NonBlank(clientData.postLogoutRedirectUris.list) ELSE <<>>),
     !.scopes = NonBlank(clientData.scopes)]

NoClientRequest ==
  [method |-> "none", path |-> "", payload |-> getDefaultClientData]

VARIABLE
  client   \* the registration form in hand (stage "blank": none yet), the
           \* result of validateClientData on it once it ran, and the request
           \* createClient / updateClient handed to userManagementApi

clientVars == <<client>>

\* The user edits the default form and submits it.
SubmitForm ==
  /\ client.stage = "blank"
  /\ \E data \in ClientForms :
       client' = [stage |-> "filled", data |-> data, validated |-> FALSE,
                  errors |-> <<>>, request |-> NoClientRequest]

\* validateClientData(data) is run on the form
ValidateForm ==
  /\ client.stage = "filled"
  /\ ~client.validated
  /\ client' = [client EXCEPT !.validated = TRUE,
                              !.errors = validateClientData(client.data)]

\* createClient(clientData) up to its await
createClient ==
  /\ client.stage = "filled"
  /\ client' = [client EXCEPT
                  !.stage = "sent",
                  !.request = [method |-> "POST", path |-> BASE_PATH,
                               payload |-> ClientPayload(client.data)]]

\* updateClient(clientId, clientData) up to its await
updateClient ==
  /\ client.stage = "filled"
  /\ client' = [client EXCEPT
                  !.stage = "sent",
                  !.request = [method |-> "PUT", path |-> BASE_PATH,
                               payload |-> ClientPayload(client.data)]]

\* The form is closed; the next one starts from nothing.
CloseForm ==
  /\ client.stage = "sent"
  /\ client' = [stage |-> "blank", data |-> getDefaultClientData, validated |-> FALSE,
                errors |-> <<>>, request |-> NoClientRequest]

ClientInit ==
  client = [stage |-> "blank", data |-> getDefaultClientData, validated |-> FALSE,
            errors |-> <<>>, request |-> NoClientRequest]

(* ----------------------------- AccountService --------------------------- *)
MsgAccountsFallback == "Failed to load accounts"

\* The HTTP statuses of a failed request; NoStatus: the failure carries a
\* response without a status.
NoStatus == 0
HttpStatuses == {400, 401, 403, 404, 405, 500, 503}

\* getErrorMessageForStatus(status)
getErrorMessageForStatus(status) ==
  IF status = 405 THEN "Server configuration error. Please contact support."
  ELSE IF status = 401 \/ status = 403 THEN "User is not authorized to access this page."
  ELSE IF status = 404 THEN "Account service not found."
  ELSE IF status >= 500 THEN "Server error. Please try again later."
  ELSE MsgAccountsFallback

\* What userManagementApi.post may reject with: an Error instance (as an
\* AxiosError is) or another value, with or without a response field.
AccountFailures ==
  { f \in [isError : BOOLEAN, message : {"", "Request failed"},
           hasResponse : BOOLEAN, status : HttpStatuses \cup {NoStatus}] :
      /\ f.isError <=> f.message = "Request failed"
      /\ ~f.hasResponse => f.status = NoStatus }

\* isAxiosError(err) && err.response?.status
CarriesStatus(err) == err.hasResponse /\ err.status # NoStatus

\* What userManagementApi.post may resolve with: the items field undefined,
\* an array of so many accounts, or something that is no array.
AccountResponses ==
  { [items |-> "undefined", count |-> 0],
    [items |-> "array", count |-> 0],
    [items |-> "array", count |-> 2],
    [items |-> "other", count |-> 0] }

\* params of filterAccounts: undefined, or key/value pairs, a value possibly
\* undefined (Undefined)
AccountParams ==
  { None,
    Some(<<>>),
    Some(<< <<"page", "0">> >>),
    Some(<< <<"page", "0">>, <<"size", Undefined>> >>),
    Some(<< <<"page", "0">>, <<"size", "20">> >>) }

AccountFilters == { [status |-> "none"], [status |-> "ACTIVE"] }

\* urlParams after the forEach: the pairs whose value is defined
QueryPairs(params) ==
  IF params.present
    THEN SelectSeq(params.list, LAMBDA pair : pair[2] # Undefined)
    ELSE <<>>

\* endpoint: '/v1/accounts/filter' followed by '?' and the query string when
\* the query string is not empty
Endpoint(params) ==
  [path |-> "/v1/accounts/filter", query |-> QueryPairs(params)]

NoAccountResult ==
  [settled |-> "none", success |-> FALSE, content |-> 0, totalElements |-> 0,
   error |-> ""]

NoAccountFailure ==
  [isError |-> FALSE, message |-> "", hasResponse |-> FALSE, status |-> NoStatus]

VARIABLE
  accountCall   \* the filterAccounts call under way or last made: the request
                \* handed to userManagementApi.post, the failure the request
                \* was rejected with, and the promise filterAccounts returned

accountVars == <<accountCall>>

\* filterAccounts(filter, params) up to its await
filterAccounts(filter, params) ==
  /\ accountCall.result.settled # "pending"
  /\ accountCall' = [request |-> [endpoint |-> Endpoint(params), body |-> filter],
                     failure |-> NoAccountFailure,
                     result |-> [NoAccountResult EXCEPT !.settled = "pending"]]

\* filterAccounts after the await: the try block's return
FilterResolve(response) ==
  /\ accountCall.result.settled = "pending"
  /\ LET accounts == IF response.items = "undefined"
                       THEN [items |-> "array", count |-> 0] ELSE response
         isArray == accounts.items = "array"
     IN  accountCall' =
           [accountCall EXCEPT
              !.result = [settled |-> "resolved", success |-> TRUE,
                          content |-> IF isArray THEN accounts.count ELSE 0,
                          totalElements |-> IF isArray THEN accounts.count ELSE 0,
                          error |-> ""]]

\* filterAccounts after the await: the catch block's return
FilterReject(err) ==
  /\ accountCall.result.settled = "pending"
  /\ LET errorMessage == IF CarriesStatus(err)
                           THEN getErrorMessageForStatus(err.status)
                           ELSE MsgAccountsFallback
     IN  accountCall' =
           [accountCall EXCEPT
              !.failure = err,
              !.result = [settled |-> "resolved", success |-> FALSE,
                          content |-> 0, totalElements |-> 0,
                          error |-> IF err.isError THEN err.message ELSE errorMessage]]

AccountInit ==
  accountCall = [request |-> [endpoint |-> Endpoint(None), body |-> [status |-> "none"]],
                 failure |-> NoAccountFailure,
                 result |-> NoAccountResult]

(* --------------------------- specifications ---------------------------- *)
vars == <<selfVars, adminVars, clockVars, svcVars, changePasswordVars, clientVars, accountVars>>

\* What the steps of one component leave alone: the variables of the others.
besidesSelf == <<adminVars, clockVars, svcVars, changePasswordVars, clientVars, accountVars>>
besidesAdmin == <<selfVars, clockVars, svcVars, changePasswordVars, clientVars, accountVars>>
besidesTimed == <<adminVars, svcVars, changePasswordVars, clientVars, accountVars>>
besidesService == <<selfVars, adminVars, clockVars, changePasswordVars, clientVars, accountVars>>
besidesChangePassword == <<selfVars, adminVars, clockVars, svcVars, clientVars, accountVars>>
besidesClient == <<selfVars, adminVars, clockVars, svcVars, changePasswordVars, accountVars>>
besidesAccount == <<selfVars, adminVars, clockVars, svcVars, changePasswordVars, clientVars>>

Init ==
  /\ SelfInit
  /\ AdminViewInit
  /\ ClockInit
  /\ ServiceInit
  /\ ChangePasswordInit
  /\ ClientInit
  /\ AccountInit
  /\ SelfInit
  /\ AdminViewInit
  /\ ClockInit
  /\ ServiceInit
  /\ ChangePasswordInit
  /\ ClientInit
  /\ SelfInit
  /\ AdminViewInit
  /\ ClockInit
  /\ ServiceInit
  /\ ChangePasswordInit

\* The self-service view with a backend answering from the given responses;
\* the admin modal is not on the page.
SelfNext(responses) ==
  \/ Mount /\ UNCHANGED besidesSelf
  \/ Unmount /\ UNCHANGED besidesSelf
  \/ TimerTick /\ UNCHANGED besidesSelf
  \/ ManualRefresh /\ UNCHANGED besidesSelf
  \/ \E response \in responses : FetchSucceed(response) /\ UNCHANGED besidesSelf
  \/ \E err \in Failures : FetchFail(err) /\ UNCHANGED besidesSelf
  \/ \E k \in 1..NumSessionIds : ClickTerminateSession(k) /\ UNCHANGED besidesSelf
  \/ ClickTerminateAll /\ UNCHANGED besidesSelf
  \/ closeConfirmDialog /\ UNCHANGED besidesSelf
  \/ handleConfirm /\ UNCHANGED besidesSelf
  \/ \E handler \in Handlers : TerminateSucceed(handler) /\ UNCHANGED besidesSelf
  \/ \E handler \in Handlers, err \in Failures :
       TerminateFail(handler, err) /\ UNCHANGED besidesSelf
  \/ DismissError /\ UNCHANGED besidesSelf
  \/ DismissSuccess /\ UNCHANGED besidesSelf

Next == SelfNext(Responses)

Spec == Init /\ [][Next]_vars

\* The session of the browser the view runs in.
CurrentSession == NumSessionIds

\* The lists of a backend that flags CurrentSession, and no other session,
\* as current in every response.
StableResponses ==
  { r \in Responses :
      /\ r.hasSessions
      /\ \E k \in 1..Len(r.sessions) : r.sessions[k].sessionId = CurrentSession
      /\ \A k \in 1..Len(r.sessions) :
           r.sessions[k].isCurrent <=> r.sessions[k].sessionId = CurrentSession }

StableNext == SelfNext(StableResponses)

StableSpec == Init /\ [][StableNext]_vars

\* The responses of a backend that flags at most one session of a list as
\* current; which one it flags may differ from response to response.
SingleCurrentResponses ==
  { r \in Responses :
      \A j, k \in 1..Len(r.sessions) :
        (r.sessions[j].isCurrent /\ r.sessions[k].isCurrent) => j = k }

SingleCurrentNext == SelfNext(SingleCurrentResponses)

SingleCurrentSpec == Init /\ [][SingleCurrentNext]_vars

\* The admin modal; the self-service view is not on the page.
AdminNext ==
  \/ \E open \in BOOLEAN, username \in Usernames \cup {NoUser} :
       AdminSetProps(open, username) /\ UNCHANGED besidesAdmin
  \/ AdminRefresh /\ UNCHANGED besidesAdmin
  \/ \E username \in Usernames, response \in Responses :
       AdminFetchSucceed(username, response) /\ UNCHANGED besidesAdmin
  \/ \E username \in Usernames, err \in Failures :
       AdminFetchFail(username, err) /\ UNCHANGED besidesAdmin
  \/ \E k \in 1..NumSessionIds : AdminClickTerminate(k) /\ UNCHANGED besidesAdmin
  \/ \E username \in Usernames : AdminTerminateSucceed(username) /\ UNCHANGED besidesAdmin
  \/ \E username \in Usernames, err \in Failures :
       AdminTerminateFail(username, err) /\ UNCHANGED besidesAdmin
  \/ AdminDismissError /\ UNCHANGED besidesAdmin
  \/ AdminDismissSuccess /\ UNCHANGED besidesAdmin

AdminSpec == Init /\ [][AdminNext]_vars

\* The self-service view under the mocked clock, with no manual refresh and
\* no termination; the admin modal is not on the page.
TimedNext ==
  \/ TimedMount /\ UNCHANGED besidesTimed
  \/ AdvanceClock /\ UNCHANGED besidesTimed
  \/ TimedTick /\ UNCHANGED besidesTimed
  \/ \E response \in Responses :
       FetchSucceed(response) /\ CountFetchCalls /\ UNCHANGED <<clock, nextFire, besidesTimed>>
  \/ \E err \in Failures :
       FetchFail(err) /\ CountFetchCalls /\ UNCHANGED <<clock, nextFire, besidesTimed>>
  \/ Unmount /\ CountFetchCalls /\ UNCHANGED <<clock, nextFire, besidesTimed>>

TimedSpec == Init /\ [][TimedNext]_vars

\* The response to an outstanding getActiveSessions call arrives.
FetchSettles ==
  \/ \E response \in Responses : FetchSucceed(response) /\ UNCHANGED besidesSelf
  \/ \E err \in Failures : FetchFail(err) /\ UNCHANGED besidesSelf

\* The self-service view with a gateway whose getActiveSessions calls
\* eventually settle.
LiveSpec == Init /\ [][Next]_vars /\ WF_vars(FetchSettles)

\* The ChangePassword page, entered from and left for the profile page.
ChangePasswordNext ==
  \/ EnterChangePassword /\ UNCHANGED besidesChangePassword
  \/ ClickRequestPasswordReset /\ UNCHANGED besidesChangePassword
  \/ ClickCancel /\ UNCHANGED besidesChangePassword
  \/ ClickBackToProfile /\ UNCHANGED besidesChangePassword
  \/ BrowserLeave /\ UNCHANGED besidesChangePassword
  \/ \E k \in 1..MaxResetCalls : ResetResolve(k) /\ UNCHANGED besidesChangePassword
  \/ \E k \in 1..MaxResetCalls, err \in Failures :
       ResetReject(k, err) /\ UNCHANGED besidesChangePassword

ChangePasswordSpec == Init /\ [][ChangePasswordNext]_vars

\* Client registration forms, submitted one after the other.
ClientNext ==
  \/ SubmitForm /\ UNCHANGED besidesClient
  \/ ValidateForm /\ UNCHANGED besidesClient
  \/ createClient /\ UNCHANGED besidesClient
  \/ updateClient /\ UNCHANGED besidesClient
  \/ CloseForm /\ UNCHANGED besidesClient

ClientSpec == Init /\ [][ClientNext]_vars

\* Calls of AccountService.filterAccounts, one at a time, over an HTTP
\* adapter that resolves or rejects each request.
AccountNext ==
  \/ \E filter \in AccountFilters, params \in AccountParams :
       filterAccounts(filter, params) /\ UNCHANGED besidesAccount
  \/ \E response \in AccountResponses : FilterResolve(response) /\ UNCHANGED besidesAccount
  \/ \E err \in AccountFailures : FilterReject(err) /\ UNCHANGED besidesAccount

AccountSpec == Init /\ [][AccountNext]_vars

\* Calls of the SessionService operations, one at a time, over an HTTP
\* adapter that resolves or rejects each request.
ServiceNext ==
  \/ \E config \in ConfigValues :
       getActiveSessions(config) /\ UNCHANGED besidesService
  \/ \E config \in ConfigValues, tokenIds \in TokenIdLists :
       terminateSessions(config, tokenIds) /\ UNCHANGED besidesService
  \/ \E config \in ConfigValues, username \in Usernames \cup {NoUser} :
       getAdminActiveSessions(config, username) /\ UNCHANGED besidesService
  \/ \E config \in ConfigValues, username \in Usernames \cup {NoUser},
          tokenIds \in TokenIdLists :
       terminateAdminSessions(config, username, tokenIds) /\ UNCHANGED besidesService
  \/ \E response \in Responses : ReturnResponse(response) /\ UNCHANGED besidesService
  \/ \E response \in Responses : ReturnVoid(response) /\ UNCHANGED besidesService
  \/ \E thrown \in Failures : Rethrow(thrown) /\ UNCHANGED besidesService

ServiceSpec == Init /\ [][ServiceNext]_vars

(* ------------------------------- claims -------------------------------- *)

\* The ids of the sessions of a list that are not flagged current.
NonCurrentIdSet(list) ==
  { list[k].sessionId : k \in { i \in 1..Len(list) : ~list[i].isCurrent } }

\* The step issues a terminateSessions call.
TerminateCallIssued == TermCount(termInFlight') > TermCount(termInFlight)

\* C1: every terminateSessions call of the self-service view is issued by the
\* Terminate control of the open confirmation dialog; no other step (mount,
\* timer tick, refresh, click on a termination control, cancel, dismissal, a
\* response arriving) issues one.
C1_ConfirmationGate ==
  [][(TerminateCallIssued \/ issued' # NoCall)
       => (confirmDialog.open /\ captured # <<>> /\ handleConfirm)]_vars

\* C1 witness: a call has just been issued from the open dialog.
C1_Witness == issued # NoCall /\ confirmDialog.open /\ callsThisOpen = 1

\* C2: for each opening of the confirmation dialog at most one
\* terminateSessions call is issued.
C2_AtMostOneCallPerOpening == callsThisOpen <= 1

\* C3: with a backend that flags the same single session as current in every
\* list response, no terminateSessions call contains the current session's id.
C3_NeverTerminatesCurrent == CurrentSession \notin SeqToSet(issued.tokenIds)

\* C3 witness: a call has been issued while the held list contains the
\* current session next to another one.
C3_Witness ==
  /\ issued # NoCall
  /\ Len(sessions) > 1
  /\ \E k \in 1..Len(sessions) : sessions[k].isCurrent

\* C4: a confirmed single-session termination is called with exactly the
\* one-element list holding the id whose control was clicked when the dialog
\* was opened, whatever the held list has become since.
C4_SingleTargetIsClickedId ==
  issued.handler = "single"
    => (Len(issued.tokenIds) = 1 /\ issued.tokenIds = captured)

\* C4 witness: the single call is issued after a refresh has dropped the
\* clicked session from the held list.
C4_Witness ==
  /\ issued.handler = "single"
  /\ \A k \in 1..Len(sessions) : sessions[k].sessionId # issued.tokenIds[1]

\* C5: confirming "terminate all others" while the held list has a
\* non-current session issues one terminateSessions call whose ids are exactly
\* the ids of the held sessions that are not current.
C5_TerminateAllSendsNonCurrent ==
  [][(confirmDialog.open /\ confirmDialog.isTerminateAll
        /\ NonCurrentIdSet(sessions) # {} /\ handleConfirm)
       => /\ TermCount(termInFlight') = TermCount(termInFlight) + 1
          /\ issued'.handler = "all"
          /\ SeqToSet(issued'.tokenIds) = NonCurrentIdSet(sessions)
          /\ Len(issued'.tokenIds) = Cardinality(NonCurrentIdSet(sessions))
          /\ \A k \in 1..Len(sessions) :
               sessions[k].isCurrent => sessions[k].sessionId \notin SeqToSet(issued'.tokenIds)]_vars

\* C5 witness: a terminate-all call has been issued from a list that also
\* holds a current session.
C5_Witness ==
  /\ issued.handler = "all"
  /\ \E k \in 1..Len(sessions) : sessions[k].isCurrent

\* C6: the ids sent on confirm are the targets captured when the dialog was
\* opened, also when the held list was replaced in between.
C6_TargetsCapturedAtOpen ==
  issued # NoCall => SeqToSet(issued.tokenIds) = SeqToSet(captured)

\* C7: confirming "terminate all others" while the held list has no
\* non-current session issues no terminateSessions call and no fetch, sets
\* the error to 'No other sessions to terminate' and closes the dialog.
C7_NoTargetsShortCircuit ==
  [][(confirmDialog.open /\ confirmDialog.isTerminateAll
        /\ NonCurrentIdSet(sessions) = {} /\ handleConfirm)
       => /\ termInFlight' = termInFlight
          /\ issued' = NoCall
          /\ fetchInFlight' = fetchInFlight
          /\ error' = "No other sessions to terminate"
          /\ confirmDialog' = ClosedDialog]_vars

\* C7 witness: the local message is shown and the dialog is closed.
C7_Witness ==
  /\ error = "No other sessions to terminate"
  /\ ~confirmDialog.open

\* C8: a terminateSessions call that succeeds starts a new getActiveSessions
\* call and leaves the held list alone; the list changes only when a fetch
\* response arrives, and a successful response replaces it by the fetched list.
C8_RefetchAfterTerminate ==
  [][/\ (\E handler \in Handlers : TerminateSucceed(handler))
          => (fetchInFlight' = fetchInFlight + 1 /\ sessions' = sessions)
     /\ (sessions' # sessions) => (fetchInFlight' = fetchInFlight - 1)
     /\ \A response \in Responses :
          (Mounted /\ FetchSucceed(response))
            => sessions' = (IF response.hasSessions THEN response.sessions ELSE <<>>)]_vars

\* C8 witness: a termination has succeeded and its follow-up fetch has
\* delivered the list.
C8_Witness ==
  /\ Mounted
  /\ success # NULL
  /\ fetchInFlight = 0
  /\ ~loading
  /\ sessions # <<>>

\* C9: in the admin modal a click on a session's terminate control does not
\* by itself issue the terminateAdminSessions request.
C9_AdminConfirmationGate ==
  [][(\E k \in 1..NumSessionIds : AdminClickTerminate(k))
       => (aIssued' = NoAdminCall /\ aTermInFlight' = aTermInFlight)]_vars

\* C10 as stated: a failed getActiveSessions leaves the list as it was, sets
\* the error to the failure's message, ends loading and starts no new fetch.
C10_FetchFailureShowsMessage ==
  [][\A err \in Failures :
       (Mounted /\ FetchFail(err))
         => /\ sessions' = sessions
            /\ error' = err.message
            /\ loading' = FALSE
            /\ fetchInFlight' = fetchInFlight - 1]_vars

\* C10 amended: as C10, with the error set to the failure's message when the
\* failure is an Error instance and to 'Failed to fetch active sessions'
\* otherwise.
C10_FetchFailureKeepsList ==
  [][\A err \in Failures :
       (Mounted /\ FetchFail(err))
         => /\ sessions' = sessions
            /\ error' = (IF err.isError THEN err.message
                                        ELSE "Failed to fetch active sessions")
            /\ loading' = FALSE
            /\ fetchInFlight' = fetchInFlight - 1]_vars

\* C10 witness: a fetch has failed with a value that is no Error while a
\* loaded list is held.
C10_Witness ==
  /\ error = "Failed to fetch active sessions"
  /\ sessions # <<>>
  /\ ~loading

\* C11: with several fetches outstanding and resolving in any order, the held
\* list is at every moment the initial empty list or the whole list of the
\* response that was delivered last, never a mixture of responses.
C11_ListIsLastResponse ==
  sessions = (IF lastFetched.hasSessions THEN lastFetched.sessions ELSE <<>>)

\* C11 witness: one of two overlapping fetches has delivered its list while
\* the other is still outstanding.
C11_Witness ==
  /\ Mounted
  /\ fetchInFlight > 0
  /\ ~loading
  /\ sessions # <<>>

\* C12: a fetch or termination response that resolves after the view has been
\* unmounted is discarded: the view's sessions, loading, error and success are
\* not updated and no further getActiveSessions call is made.
C12_DiscardedAfterUnmount ==
  [][phase = "unmounted" =>
       /\ UNCHANGED <<sessions, loading, error, success>>
       /\ fetchInFlight' <= fetchInFlight]_vars

\* C13: while the view is mounted and neither a manual refresh nor a
\* termination occurs, getActiveSessions has been called once for the mount
\* and once more for each elapsed interval of 30000 ms (so twice after exactly
\* one interval), as soon as the timer callbacks that are due have run.
C13_OneFetchPerInterval ==
  (Mounted /\ clock < nextFire) =>
     fetchCalls = 1 + (clock \div AUTO_REFRESH_INTERVAL)

\* C13 witness: exactly one interval after the mount, two calls have been made.
C13_Witness ==
  /\ Mounted
  /\ clock = AUTO_REFRESH_INTERVAL
  /\ clock < nextFire
  /\ fetchCalls = 2

\* C14: the refresh timer is cancelled when the view is torn down: there is
\* never more than one interval timer, and once the view is unmounted no timer
\* is left and, however much time passes, no getActiveSessions call is made.
C14_TimerCancelledOnTeardown ==
  [][/\ timers' <= 1
     /\ phase = "unmounted" => (timers = 0 /\ fetchCalls' = fetchCalls)]_vars

\* C14 witness: the view was unmounted and the clock has passed the moment at
\* which the timer would have been due.
C14_Witness ==
  /\ phase = "unmounted"
  /\ nextFire > 0
  /\ clock >= nextFire

\* C15: cancelling or dismissing the confirmation dialog leaves the pending
\* confirmation closed, with no target id and not terminate-all, and does
\* nothing else: no gateway call is made and the session list, the error and
\* the success message are as they were.
C15_CancelHasNoSideEffect ==
  [][closeConfirmDialog =>
       /\ confirmDialog' = [open |-> FALSE, sessionId |-> NoSession, isTerminateAll |-> FALSE]
       /\ issued' = NoCall
       /\ fetchInFlight' = fetchInFlight
       /\ termInFlight' = termInFlight
       /\ UNCHANGED <<sessions, error, success>>]_vars

\* C15 witness: the dialog was dismissed while the terminations confirmed in
\* it were still awaiting their responses (a response closes the dialog only
\* together with taking its call off the outstanding ones).
C15_Witness ==
  /\ Mounted
  /\ ~confirmDialog.open
  /\ TermCount(termInFlight) = MaxTermInFlight

\* C16: the terminate-all dialog is opened only from a state in which the
\* view is not loading and the held list has at least one session that is
\* not flagged current.
C16_TerminateAllNeedsOtherSession ==
  [][(~confirmDialog.open /\ confirmDialog'.open /\ confirmDialog'.isTerminateAll) =>
       /\ ~loading
       /\ NonCurrentIdSet(sessions) # {}]_vars

\* C16 witness: the terminate-all dialog is open.
C16_Witness ==
  /\ Mounted
  /\ confirmDialog.open
  /\ confirmDialog.isTerminateAll

\* C17: every step that starts a fetch in the mounted view sets loading and
\* clears the error; the step that takes the view out of loading is the
\* arrival of a response, which replaces the list by the response's sessions,
\* or of a failure, which sets the error; and, the gateway calls settling
\* eventually, a loading view eventually is not loading (or is torn down).
C17_LoadingThenLoadedOrError ==
  /\ [][(fetchInFlight' > fetchInFlight /\ Mounted') =>
          (loading' /\ error' = NULL)]_vars
  /\ [][(Mounted /\ loading /\ ~loading') =>
          \/ \E response \in Responses :
               /\ FetchSucceed(response)
               /\ sessions' = (IF response.hasSessions THEN response.sessions ELSE <<>>)
          \/ \E err \in Failures :
               /\ FetchFail(err)
               /\ error' # NULL]_vars
  /\ (Mounted /\ loading) ~> (~loading \/ ~Mounted)

\* C17 witness: a fetch that succeeded and a later one that failed have both
\* settled, and the view is not loading.
C17_Witness ==
  /\ Mounted
  /\ ~loading
  /\ fetchInFlight = 0
  /\ sessions # <<>>
  /\ error = "Network error"

\* C18: when the HTTP call of any of the four SessionService operations
\* rejects, the operation rejects with that very error, and has made no
\* further request.
C18_TransportErrorPropagates ==
  \A op \in ListOperations \cup VoidOperations :
    (svcOp = op /\ httpResult.kind = "error") =>
       /\ svcOutcome.kind = "error"
       /\ svcOutcome.error = httpResult.error
       /\ Len(svcRequests) = 1

\* C18 witness: terminateAdminSessions was rejected with a value that is
\* not an Error object.
C18_Witness ==
  /\ svcOp = "terminateAdminSessions"
  /\ httpResult.kind = "error"
  /\ ~httpResult.error.isError

\* The one request an operation called with the given arguments under the
\* given configured prefix is to make, as the service's contract lists it.
ContractRequest(op, config, args) ==
  LET prefix == IF config = Undefined THEN "/sdp" ELSE config
  IN  CASE op = "getActiveSessions" ->
             [method |-> "GET",
              url |-> [prefix |-> prefix, path |-> "/self/tokens/active"],
              body |-> [fields |-> {}, username |-> NoUser, tokenIds |-> <<>>]]
        [] op = "terminateSessions" ->
             [method |-> "POST",
              url |-> [prefix |-> prefix, path |-> "/self/tokens/invalidate"],
              body |-> [fields |-> {"tokenIds"}, username |-> NoUser,
                        tokenIds |-> args.tokenIds]]
        [] op = "getAdminActiveSessions" ->
             [method |-> "POST",
              url |-> [prefix |-> prefix, path |-> "/admin/tokens/active"],
              body |-> [fields |-> {"username"}, username |-> args.username,
                        tokenIds |-> <<>>]]
        [] op = "terminateAdminSessions" ->
             [method |-> "POST",
              url |-> [prefix |-> prefix, path |-> "/admin/tokens/invalidate"],
              body |-> [fields |-> {"username", "tokenIds"},
                        username |-> args.username, tokenIds |-> args.tokenIds]]

C20_NoCallWithoutUsername ==
  /\ [](/\ aFetchInFlight[NoUser] = 0
        /\ aTermInFlight[NoUser] = 0
        /\ (aIssued # NoAdminCall => aIssued.username # NoUser))
  /\ [][(\/ \E open \in BOOLEAN : AdminSetProps(open, NoUser)
         \/ aUsername = NoUser /\ AdminRefresh
         \/ aUsername = NoUser /\ \E k \in 1..NumSessionIds : AdminClickTerminate(k))
        => /\ aFetchInFlight' = aFetchInFlight
           /\ aTermInFlight' = aTermInFlight
           /\ aIssued' = NoAdminCall]_vars

\* C20 witness: the modal is open with no username while the list, filled by
\* the late response to an earlier user's fetch, offers a terminate control.
C20_Witness ==
  /\ aOpen
  /\ aUsername = NoUser
  /\ ~aLoading
  /\ \E k \in 1..Len(aSessions) : ~aSessions[k].isCurrent

C22_OneResetRequestAtATime ==
  /\ [](OnChangePassword =>
          /\ Cardinality(PendingResets) <= 1
          /\ changePassword.loading <=> (PendingResets # {}))
  /\ [][(Len(resetCalls') > Len(resetCalls)) =>
          (~changePassword.loading /\ ~changePassword.success)]_vars
  /\ [][ClickCancel => ~changePassword.loading]_vars
  /\ [][(OnChangePassword /\ changePassword.success /\ ~changePassword'.success) =>
          ~OnChangePassword']_vars

\* C22 witness: after a failed request the view has a second request in
\* flight, and it is loading.
C22_Witness ==
  /\ OnChangePassword
  /\ changePassword.loading
  /\ \E j, k \in 1..Len(resetCalls) :
       /\ j < k
       /\ resetCalls[j].instance = changePassword.instance
       /\ resetCalls[j].outcome = "rejected"
       /\ resetCalls[k].instance = changePassword.instance
       /\ resetCalls[k].outcome = "pending"

\* C23: the pending confirmation is always one of three: nothing (closed, no
\* target id, not terminate-all), a single target (open, a target id, not
\* terminate-all), or terminate-all (open, no target id, terminate-all).
C23_PendingConfirmationShape ==
  \/ /\ ~confirmDialog.open
     /\ confirmDialog.sessionId = NoSession
     /\ ~confirmDialog.isTerminateAll
  \/ /\ confirmDialog.open
     /\ confirmDialog.sessionId \in SessionIds
     /\ ~confirmDialog.isTerminateAll
  \/ /\ confirmDialog.open
     /\ confirmDialog.sessionId = NoSession
     /\ confirmDialog.isTerminateAll

\* C23 witness: the dialog is open for a single target, the listed session
\* with the highest id.
C23_Witness ==
  /\ Mounted
  /\ confirmDialog.open
  /\ confirmDialog.sessionId = NumSessionIds
  /\ ~confirmDialog.isTerminateAll

\* What a failed terminateSessions call of the given handler does besides
\* setting the error: no success message, no fetch, no further terminate
\* call, the list as it was, the dialog closed and reset.
TerminateFailureFrame(handler) ==
  /\ success' = success
  /\ fetchInFlight' = fetchInFlight
  /\ issued' = NoCall
  /\ termInFlight' = [termInFlight EXCEPT ![handler] = @ - 1]
  /\ sessions' = sessions
  /\ confirmDialog' = [open |-> FALSE, sessionId |-> NoSession, isTerminateAll |-> FALSE]

\* C24 as stated: a failed terminateSessions call sets the error to the
\* failure's message, sets no success message, starts no fetch and no retry,
\* leaves the list alone and closes and resets the dialog.
C24_TerminateFailureShowsMessage ==
  [][\A handler \in Handlers, err \in Failures :
       (Mounted /\ TerminateFail(handler, err))
         => (error' = err.message /\ TerminateFailureFrame(handler))]_vars

\* C24 amended: as C24, with the error set to the failure's message when the
\* failure is an Error instance, and otherwise to 'Failed to terminate
\* session' (single target) or 'Failed to terminate all sessions'.
C24_TerminateFailureHandled ==
  [][\A handler \in Handlers, err \in Failures :
       (Mounted /\ TerminateFail(handler, err))
         => /\ error' = (IF err.isError THEN err.message
                         ELSE IF handler = "all" THEN "Failed to terminate all sessions"
                                                 ELSE "Failed to terminate session")
            /\ TerminateFailureFrame(handler)]_vars

\* C24 witness: a terminate-all call has failed with a value that is no
\* Error; the dialog is closed and a list is held.
C24_Witness ==
  /\ Mounted
  /\ error = "Failed to terminate all sessions"
  /\ ~confirmDialog.open
  /\ sessions # <<>>

\* C25: a form that validateClientData accepted (no error) and whose grant
\* types include authorization_code has a redirect URI that is not blank,
\* and the createClient or updateClient request made for it carries a
\* redirectUris list that is not empty.
C25_AcceptedAuthCodeFormHasRedirectUri ==
  (/\ client.validated
   /\ client.errors = <<>>
   /\ Includes(client.data.authorizationGrantTypes, "authorization_code"))
  => /\ \E k \in 1..Len(client.data.redirectUris) :
          Trim(client.data.redirectUris[k]) # ""
     /\ client.stage = "sent" => client.request.payload.redirectUris # <<>>

\* C26: filterAccounts never rejects; a failed call resolves with success
\* false, and when the failure carries an HTTP response status the error
\* string is the message for that status: 405, 401 or 403, 404, 500 and
\* above each have their own, any other status has 'Failed to load accounts'.
C26_StatusSpecificErrorMessage ==
  /\ accountCall.result.settled # "rejected"
  /\ (accountCall.result.settled = "resolved" /\ accountCall.failure # NoAccountFailure)
       => ~accountCall.result.success
  /\ (/\ accountCall.result.settled = "resolved"
      /\ accountCall.failure.hasResponse
      /\ accountCall.failure.status # NoStatus)
       => accountCall.result.error =
            (LET status == accountCall.failure.status
             IN  CASE status = 405 -> "Server configuration error. Please contact support."
                   [] status \in {401, 403} -> "User is not authorized to access this page."
                   [] status = 404 -> "Account service not found."
                   [] status >= 500 -> "Server error. Please try again later."
                   [] OTHER -> "Failed to load accounts")

\* C27: while the view is shown, loading is true in every state in which at
\* least one getActiveSessions call is still in flight, a second fetch
\* started before an earlier one resolved included.
C27_LoadingWhileFetchOutstanding ==
  (Mounted /\ fetchInFlight > 0) => loading

\* C28: the completion of a termination call started from an earlier dialog
\* never closes or resets a dialog the user opened afterwards for a
\* different target: a call of one handler settling while the dialog of the
\* other kind is open, with no call issued from it, leaves that dialog as it is.
C28_LaterDialogSurvivesEarlierCall ==
  [][\A handler \in Handlers :
       (/\ Mounted
        /\ confirmDialog.open
        /\ callsThisOpen = 0
        /\ confirmDialog.isTerminateAll # (handler = "all")
        /\ \/ TerminateSucceed(handler)
           \/ \E err \in Failures : TerminateFail(handler, err))
         => confirmDialog' = confirmDialog]_vars

\* C29: in the admin modal every session in the list came from a
\* getAdminActiveSessions call for the username now selected, and the list
\* is empty whenever the modal is closed or has no username; hence every
\* terminateAdminSessions call names the username its session id was
\* fetched for.
C29_ListBelongsToSelectedUser ==
  /\ aSessions # <<>> => (aOpen /\ aUsername # NoUser /\ aListUser = aUsername)
  /\ aIssued # NoAdminCall => aIssued.username = aListUser

\* C30: in the self-service view the success message changes only when a
\* terminateSessions call succeeds (set to that handler's message) or when
\* the user dismisses the alert (cleared); every other step leaves it as it
\* was.
C30_SuccessChangedOnlyByTerminateOrDismiss ==
  [][success' # success =>
       \/ DismissSuccess /\ success' = NULL
       \/ /\ Mounted
          /\ \/ TerminateSucceed("single") /\ success' = "Session terminated successfully"
             \/ TerminateSucceed("all")
                  /\ success' = "All other sessions terminated successfully"]_vars

\* C30 witness: a success message from an earlier termination is still set
\* together with a later error, with the dialog closed.
C30_Witness ==
  /\ Mounted
  /\ success = "Session terminated successfully"
  /\ error # NULL
  /\ ~confirmDialog.open

====
